---- MODULE Spec2Model ----
(***************************************************************************)
(* Letterboxd activity parser (parse_letterboxd.py) and its TRMNL server   *)
(* (trmnl_server.py).                                                      *)
(*                                                                         *)
(* Python strings are TLA+ strings; Python dicts are functions whose       *)
(* DOMAIN is the set of keys present.  A Python float that is a multiple   *)
(* of 0.5 is held exactly as an integer number of tenths (4.5 is 45).      *)
(* The two star glyphs U+2605 and U+00BD are written "*" and "h".          *)
(***************************************************************************)
EXTENDS Integers, Sequences, FiniteSets, TLC

VARIABLES
    parser,        \* the LetterboxdParser instance being fed
    fed,           \* number of tag/text events fed to the parser so far
    last,          \* the event most recently fed to the parser
    input_blocks,  \* number of fed section start tags whose class contains 'activity-row'
    pc,            \* "feeding" until parse_letterboxd_html returns, then "done"
    result,        \* the list parse_letterboxd_html returned
    records,       \* format_for_trmnl: the activities argument
    limit,         \* format_for_trmnl: the limit argument
    now,           \* format_for_trmnl: what datetime.now() answered
    envelope,      \* format_for_trmnl: the returned dict
    file,          \* trmnl_server: the html file on disk
    templates,     \* trmnl_server: the template files on disk
    request,       \* trmnl_server: the last request served
    response       \* trmnl_server: the response of the last request

vars == <<parser, fed, last, input_blocks, pc, result, records, limit, now, envelope,
          file, templates, request, response>>

(***************************************************************************)
(* Bounds of the model.                                                    *)
(***************************************************************************)
MaxEvents == 6
MaxRatingEvents == 5
MaxRated == 11
MaxRecords == 3
MaxLimit == 4
MaxDocLen == 4

(***************************************************************************)
(* Python str operations.                                                  *)
(***************************************************************************)
Min(a, b) == IF a <= b THEN a ELSE b

Max(a, b) == IF a >= b THEN a ELSE b

\* characters i..j of s (from 1); positions outside s hold nothing, as in a slice
Sub(s, i, j) ==
    IF Max(i, 1) > Min(j, Len(s)) THEN "" ELSE SubSeq(s, Max(i, 1), Min(j, Len(s)))

CharAt(s, i) == Sub(s, i, i)

Contains(hay, needle) ==
    \E i \in 1..(Len(hay) - Len(needle) + 1) :
        Sub(hay, i, i + Len(needle) - 1) = needle

StartsWith(s, prefix) ==
    /\ Len(s) >= Len(prefix)
    /\ Sub(s, 1, Len(prefix)) = prefix

IsSpace(c) == c \in {" ", "\n", "\t", "\r"}

Digits == <<"0", "1", "2", "3", "4", "5", "6", "7", "8", "9">>

IsDigit(c) == \E d \in 1..10 : Digits[d] = c

DigitValue(c) == (CHOOSE d \in 1..10 : Digits[d] = c) - 1

\* the set's least element
Least(S) == CHOOSE a \in S : \A b \in S : a <= b

\* str.strip(): the text between the first and the last non-whitespace character
strip(s) ==
    LET solid == {i \in 1..Len(s) : ~IsSpace(CharAt(s, i))}
    IN  IF solid = {} THEN ""
        ELSE Sub(s, Least(solid), CHOOSE a \in solid : \A b \in solid : a >= b)

\* str.count(ch) for a one-character ch
count(s, ch) == Cardinality({i \in 1..Len(s) : CharAt(s, i) = ch})

\* the end of the longest run of decimal digits starting at i (i - 1 when empty)
DigitRunEnd(s, i) ==
    Least({j \in i..(Len(s) + 1) : j = Len(s) + 1 \/ ~IsDigit(CharAt(s, j))}) - 1

\* the end of the longest run of characters other than '/' starting at i
NonSlashRunEnd(s, i) ==
    Least({j \in i..(Len(s) + 1) : j = Len(s) + 1 \/ CharAt(s, j) = "/"}) - 1

\* int(s) for a string of decimal digits
RECURSIVE int(_)
int(s) ==
    IF Len(s) = 0 THEN 0
    ELSE 10 * int(Sub(s, 1, Len(s) - 1)) + DigitValue(CharAt(s, Len(s)))

\* s * n
RECURSIVE Repeat(_, _)
Repeat(s, n) == IF n <= 0 THEN "" ELSE s \o Repeat(s, n - 1)

\* str.replace(old, new) for a one-character old
RECURSIVE replace(_, _, _)
replace(s, old, new) ==
    IF Len(s) = 0 THEN ""
    ELSE (IF CharAt(s, 1) = old THEN new ELSE CharAt(s, 1))
         \o replace(Sub(s, 2, Len(s)), old, new)

(***************************************************************************)
(* Python dict operations.                                                 *)
(***************************************************************************)
EmptyDict == [k \in {} |-> ""]

Has(d, k) == k \in DOMAIN d

\* d.get(k, default)
Get(d, k, default) == IF k \in DOMAIN d THEN d[k] ELSE default

\* d[k] = v
Put(d, k, v) == [x \in DOMAIN d \cup {k} |-> IF x = k THEN v ELSE d[x]]

(***************************************************************************)
(* The regular expressions of the parser, as re.search evaluates them: the *)
(* leftmost position at which the pattern matches, with greedy groups.     *)
(* Each answers << >> for None and <<group(1)>> for a match.               *)
(***************************************************************************)
\* re.search(r'/films/year/(\d{4})/', href)
YearMatch(href) ==
    LET lit == "/films/year/"
        at  == {i \in 1..(Len(href) - 16) :
                   /\ Sub(href, i, i + 11) = lit
                   /\ \A k \in 12..15 : IsDigit(CharAt(href, i + k))
                   /\ CharAt(href, i + 16) = "/"}
    IN  IF at = {} THEN << >> ELSE <<Sub(href, Least(at) + 12, Least(at) + 15)>>

\* re.search(r'rated-(\d+)', class)
RatedMatch(class) ==
    LET lit == "rated-"
        at  == {i \in 1..(Len(class) - 6) :
                   /\ Sub(class, i, i + 5) = lit
                   /\ IsDigit(CharAt(class, i + 6))}
    IN  IF at = {} THEN << >>
        ELSE <<Sub(class, Least(at) + 6, DigitRunEnd(class, Least(at) + 6))>>

\* re.search(r'/film/([^/]+)/', href)
SlugMatch(href) ==
    LET lit == "/film/"
        at  == {i \in 1..(Len(href) - 7) :
                   /\ Sub(href, i, i + 5) = lit
                   /\ CharAt(href, i + 6) # "/"
                   /\ NonSlashRunEnd(href, i + 6) < Len(href)}
    IN  IF at = {} THEN << >>
        ELSE <<Sub(href, Least(at) + 6, NonSlashRunEnd(href, Least(at) + 6))>>

(***************************************************************************)
(* Rating decoding (handle_starttag, the rating branch).                   *)
(***************************************************************************)
FULL_STAR == "*"
HALF_STAR == "h"

\* Mutant of Stars: integer division, rating_value // 2.
Stars_floordiv(rating_value) == (rating_value \div 2) * 10

\* stars = rating_value / 2.0, in tenths
Stars(rating_value) == (rating_value * 10) \div 2

\* stars % 1, in tenths
FracStars(stars) == stars % 10

\* int(stars)
IntStars(stars) == stars \div 10

\* '*' * int(stars) + ('h' if stars % 1 else '')
RatingDisplay(stars) ==
    Repeat(FULL_STAR, IntStars(stars))
        \o (IF FracStars(stars) # 0 THEN HALF_STAR ELSE "")

(***************************************************************************)
(* LetterboxdParser.  Dicts are objects: parser.heap maps an object id to  *)
(* the dict's contents, parser.current_activity is the id of the           *)
(* accumulator and parser.activities is the list of ids appended so far.   *)
(***************************************************************************)
\* LetterboxdParser.__init__
NewParser ==
    [ heap             |-> <<EmptyDict>>,
      activities       |-> << >>,
      current_activity |-> 1,
      in_review        |-> FALSE,
      in_review_body   |-> FALSE,
      in_title         |-> FALSE,
      in_rating        |-> FALSE,
      current_tag      |-> "None" ]

\* the accumulator's contents
Current(p) == p.heap[p.current_activity]

\* the contents of the list of emitted records
Emitted(p) == [i \in 1..Len(p.activities) |-> p.heap[p.activities[i]]]

\* self.current_activity[k] = v
SetItem(p, k, v) == [p EXCEPT !.heap[p.current_activity] = Put(@, k, v)]

\* Objects no longer referenced are collected and the others renumbered in
\* the order the parser reaches them: the list's elements, then the
\* accumulator.
Collect(p) ==
    LET refs     == p.activities \o <<p.current_activity>>
        First(r) == Least({i \in 1..Len(refs) : refs[i] = r})
        firsts   == {First(refs[i]) : i \in 1..Len(refs)}
        Rank(r)  == Cardinality({f \in firsts : f <= First(r)})
        ObjAt(n) == CHOOSE r \in {refs[i] : i \in 1..Len(refs)} : Rank(r) = n
    IN  [p EXCEPT
            !.heap = [n \in 1..Cardinality(firsts) |-> p.heap[ObjAt(n)]],
            !.activities = [i \in 1..Len(p.activities) |-> Rank(p.activities[i])],
            !.current_activity = Rank(p.current_activity)]

\* self.current_activity = {}  (a new dict object)
Rebind(p) ==
    Collect([p EXCEPT !.heap = Append(@, EmptyDict),
                      !.current_activity = Len(p.heap) + 1])

\* self.activities.append(self.current_activity.copy())
AppendCopy(p) ==
    Collect([p EXCEPT !.heap = Append(@, Current(p)),
                      !.activities = Append(@, Len(p.heap) + 1)])

\* handle_starttag, "Detect activity section"
ActivitySection(p, tag, attrs) ==
    IF /\ tag = "section"
       /\ Has(attrs, "class")
       /\ Contains(Get(attrs, "class", ""), "activity-row")
    THEN [Rebind(p) EXCEPT !.in_review = TRUE]
    ELSE p

\* handle_starttag, "Extract movie title"
MovieTitle(p, tag, attrs) ==
    IF /\ tag = "h2"
       /\ p.in_review
       /\ Has(attrs, "class")
       /\ Contains(Get(attrs, "class", ""), "name")
    THEN [p EXCEPT !.in_title = TRUE]
    ELSE p

\* handle_starttag, "Extract year from release date"
ReleaseYear(p, tag, attrs) ==
    LET href       == Get(attrs, "href", "")
        year_match == YearMatch(href)
    IN  IF /\ tag = "a"
           /\ p.in_review
           /\ StartsWith(href, "/films/year/")
           /\ year_match # << >>
        THEN SetItem(p, "year", year_match[1])
        ELSE p

\* handle_starttag, "Extract rating"
Rating(p, tag, attrs) ==
    LET rating_match == RatedMatch(Get(attrs, "class", ""))
    IN  IF /\ tag = "span"
           /\ Has(attrs, "class")
           /\ Contains(Get(attrs, "class", ""), "rating")
        THEN IF rating_match # << >>
             THEN LET stars == Stars(int(rating_match[1]))
                  IN  SetItem(SetItem([p EXCEPT !.in_rating = TRUE],
                                      "rating", stars),
                              "rating_display", RatingDisplay(stars))
             ELSE [p EXCEPT !.in_rating = TRUE]
        ELSE p

\* handle_starttag, "Extract review text"
ReviewBody(p, tag, attrs) ==
    IF /\ tag = "div"
       /\ Has(attrs, "class")
       /\ Contains(Get(attrs, "class", ""), "js-review-body")
    THEN [p EXCEPT !.in_review_body = TRUE]
    ELSE p

\* handle_starttag, "Extract timestamp"
Timestamp(p, tag, attrs) ==
    IF tag = "time" /\ Has(attrs, "datetime")
    THEN SetItem(p, "datetime", attrs["datetime"])
    ELSE p

\* handle_starttag, "Extract movie link and slug"
MovieLink(p, tag, attrs) ==
    LET href       == Get(attrs, "href", "")
        slug_match == SlugMatch(href)
    IN  IF /\ tag = "a"
           /\ p.in_review
           /\ Has(attrs, "href")
           /\ Contains(href, "/film/")
           /\ count(href, "/") >= 3
           /\ slug_match # << >>
        THEN SetItem(SetItem(p, "slug", slug_match[1]),
                     "url", "https://letterboxd.com" \o href)
        ELSE p

\* LetterboxdParser.handle_starttag: the seven checks in the order of the code
handle_starttag(p, tag, attrs) ==
    MovieLink(
      Timestamp(
        ReviewBody(
          Rating(
            ReleaseYear(
              MovieTitle(
                ActivitySection(p, tag, attrs),
                tag, attrs),
              tag, attrs),
            tag, attrs),
          tag, attrs),
        tag, attrs),
      tag, attrs)

\* Mutant of handle_endtag: the accumulator itself is appended and then
\* cleared in place, instead of a copy being appended and a new dict bound.
handle_endtag_reuse(p, tag) ==
    LET p1 == IF tag = "section"
              THEN LET q == IF Current(p) # EmptyDict /\ Has(Current(p), "title")
                            THEN Collect([p EXCEPT !.activities =
                                             Append(@, p.current_activity)])
                            ELSE p
                   IN  [q EXCEPT !.heap[q.current_activity] = EmptyDict,
                                 !.in_review = FALSE,
                                 !.in_review_body = FALSE]
              ELSE p
        p2 == IF tag = "h2" THEN [p1 EXCEPT !.in_title = FALSE] ELSE p1
        p3 == IF tag = "span" THEN [p2 EXCEPT !.in_rating = FALSE] ELSE p2
    IN  p3

\* Mutant of handle_endtag: the end of a div also leaves the review body.
handle_endtag_divclose(p, tag) ==
    LET p1 == IF tag = "section"
              THEN LET q == IF Current(p) # EmptyDict /\ Has(Current(p), "title")
                            THEN AppendCopy(p)
                            ELSE p
                   IN  [Rebind(q) EXCEPT !.in_review = FALSE,
                                         !.in_review_body = FALSE]
              ELSE p
        p2 == IF tag = "h2" THEN [p1 EXCEPT !.in_title = FALSE] ELSE p1
        p3 == IF tag = "span" THEN [p2 EXCEPT !.in_rating = FALSE] ELSE p2
        p4 == IF tag = "div" THEN [p3 EXCEPT !.in_review_body = FALSE] ELSE p3
    IN  p4

\* LetterboxdParser.handle_endtag
handle_endtag(p, tag) ==
    LET p1 == IF tag = "section"
              THEN LET q == IF Current(p) # EmptyDict /\ Has(Current(p), "title")
                            THEN AppendCopy(p)
                            ELSE p
                   IN  [Rebind(q) EXCEPT !.in_review = FALSE,
                                         !.in_review_body = FALSE]
              ELSE p
        p2 == IF tag = "h2" THEN [p1 EXCEPT !.in_title = FALSE] ELSE p1
        p3 == IF tag = "span" THEN [p2 EXCEPT !.in_rating = FALSE] ELSE p2
    IN  p3

\* Mutant of handle_data: the text is not checked for being empty.
handle_data_unchecked(p, raw) ==
    LET data == strip(raw)
        p1 == IF /\ p.in_title
                 /\ data \notin {"watched", "rewatched"}
                 /\ ~Has(Current(p), "title")
              THEN SetItem(p, "title", data)
              ELSE p
        p2 == IF p1.in_review_body
              THEN IF ~Has(Current(p1), "review")
                   THEN SetItem(p1, "review", data)
                   ELSE SetItem(p1, "review", Current(p1)["review"] \o " " \o data)
              ELSE p1
    IN  p2

\* LetterboxdParser.handle_data
handle_data(p, raw) ==
    LET data == strip(raw)
        \* capture movie title
        p1 == IF /\ p.in_title
                 /\ data # ""
                 /\ data \notin {"watched", "rewatched"}
                 /\ ~Has(Current(p), "title")
              THEN SetItem(p, "title", data)
              ELSE p
        \* capture review text
        p2 == IF p1.in_review_body
              THEN IF ~Has(Current(p1), "review")
                   THEN SetItem(p1, "review", data)
                   ELSE SetItem(p1, "review", Current(p1)["review"] \o " " \o data)
              ELSE p1
    IN  IF data = "" THEN p ELSE p2

(***************************************************************************)
(* datetime.fromisoformat and strftime, for the timestamps of the model:   *)
(* YYYY-MM-DD, optionally followed by a separator and HH:MM:SS, optionally *)
(* followed by an offset +HH:MM or -HH:MM.  Any other text is a            *)
(* ValueError, answered as << >>.                                          *)
(***************************************************************************)
MonthAbbr ==
    <<"Jan", "Feb", "Mar", "Apr", "May", "Jun",
      "Jul", "Aug", "Sep", "Oct", "Nov", "Dec">>

AllDigits(s) == \A i \in 1..Len(s) : IsDigit(CharAt(s, i))

IsLeap(y) == (y % 4 = 0 /\ y % 100 # 0) \/ y % 400 = 0

DaysInMonth(y, m) ==
    IF m = 2 THEN (IF IsLeap(y) THEN 29 ELSE 28)
    ELSE IF m \in {4, 6, 9, 11} THEN 30 ELSE 31

\* HH:MM:SS
IsClock(s) ==
    /\ Len(s) = 8
    /\ AllDigits(Sub(s, 1, 2)) /\ CharAt(s, 3) = ":"
    /\ AllDigits(Sub(s, 4, 5)) /\ CharAt(s, 6) = ":"
    /\ AllDigits(Sub(s, 7, 8))
    /\ int(Sub(s, 1, 2)) < 24
    /\ int(Sub(s, 4, 5)) < 60
    /\ int(Sub(s, 7, 8)) < 60

\* +HH:MM or -HH:MM
IsOffset(s) ==
    /\ Len(s) = 6
    /\ CharAt(s, 1) \in {"+", "-"}
    /\ AllDigits(Sub(s, 2, 3)) /\ CharAt(s, 4) = ":"
    /\ AllDigits(Sub(s, 5, 6))
    /\ int(Sub(s, 2, 3)) < 24
    /\ int(Sub(s, 5, 6)) < 60

fromisoformat(s) ==
    IF /\ Len(s) \in {10, 19, 25}
       /\ AllDigits(Sub(s, 1, 4)) /\ CharAt(s, 5) = "-"
       /\ AllDigits(Sub(s, 6, 7)) /\ CharAt(s, 8) = "-"
       /\ AllDigits(Sub(s, 9, 10))
       /\ int(Sub(s, 1, 4)) >= 1
       /\ int(Sub(s, 6, 7)) \in 1..12
       /\ int(Sub(s, 9, 10)) \in
              1..DaysInMonth(int(Sub(s, 1, 4)), int(Sub(s, 6, 7)))
       /\ Len(s) >= 19 => IsClock(Sub(s, 12, 19))
       /\ Len(s) = 25 => IsOffset(Sub(s, 20, 25))
    THEN << [ year   |-> int(Sub(s, 1, 4)),
              month  |-> int(Sub(s, 6, 7)),
              day    |-> int(Sub(s, 9, 10)),
              hour   |-> IF Len(s) >= 19 THEN int(Sub(s, 12, 13)) ELSE 0,
              minute |-> IF Len(s) >= 19 THEN int(Sub(s, 15, 16)) ELSE 0 ] >>
    ELSE << >>

\* %d, %I, %M: two digits, zero padded
Pad2(n) == IF n < 10 THEN "0" \o ToString(n) ELSE ToString(n)

\* %Y: four digits, zero padded
Pad4(n) ==
    IF n < 10 THEN "000" \o ToString(n)
    ELSE IF n < 100 THEN "00" \o ToString(n)
    ELSE IF n < 1000 THEN "0" \o ToString(n) ELSE ToString(n)

\* dt.strftime('%b %d')
DateShort(dt) == MonthAbbr[dt.month] \o " " \o Pad2(dt.day)

\* dt.strftime('%b %d, %Y')
DateLong(dt) == DateShort(dt) \o ", " \o Pad4(dt.year)

\* dt.strftime('%b %d, %Y %I:%M %p')
DateTimeLong(dt) ==
    DateLong(dt) \o " "
        \o Pad2(IF dt.hour % 12 = 0 THEN 12 ELSE dt.hour % 12) \o ":"
        \o Pad2(dt.minute) \o " " \o (IF dt.hour < 12 THEN "AM" ELSE "PM")

(***************************************************************************)
(* The review clean-up of parse_letterboxd_html.                           *)
(***************************************************************************)
\* the end of the longest run of whitespace starting at i (i - 1 when empty)
SpaceRunEnd(s, i) ==
    Least({j \in i..(Len(s) + 1) : j = Len(s) + 1 \/ ~IsSpace(CharAt(s, j))}) - 1

\* re.sub(r'\s*Translate\s*Translated from.*$', '', review)
StripTranslated(review) ==
    LET n  == Len(review)
        T(i) == SpaceRunEnd(review, i) + 1        \* where "Translate" must start
        F(i) == SpaceRunEnd(review, T(i) + 9) + 1 \* where "Translated from" must start
        at == {i \in 1..n :
                  /\ Sub(review, T(i), T(i) + 8) = "Translate"
                  /\ Sub(review, F(i), F(i) + 14) = "Translated from"
                  \* .*$ : no newline before the end, but for a last one
                  /\ \A k \in (F(i) + 15)..(n - 1) : CharAt(review, k) # "\n"}
    IN  IF at = {} THEN review
        ELSE Sub(review, 1, Least(at) - 1)
                 \o (IF CharAt(review, n) = "\n" /\ n >= F(Least(at)) + 15
                     THEN "\n" ELSE "")

\* re.sub(r'\s*Translate\s*$', '', review)
StripTranslate(review) ==
    LET n  == Len(review)
        T(i) == SpaceRunEnd(review, i) + 1
        at == {i \in 1..n :
                  /\ Sub(review, T(i), T(i) + 8) = "Translate"
                  /\ SpaceRunEnd(review, T(i) + 9) = n}
    IN  IF at = {} THEN review ELSE Sub(review, 1, Least(at) - 1)

\* the body of the loop of parse_letterboxd_html for an activity with a title
CleanActivity(activity) ==
    LET dt == fromisoformat(replace(Get(activity, "datetime", ""), "Z", "+00:00"))
        a1 == IF Has(activity, "datetime") /\ dt # << >>
              THEN Put(Put(activity, "date", DateLong(dt[1])),
                       "date_short", DateShort(dt[1]))
              ELSE activity
        a2 == IF Has(a1, "review")
              THEN Put(a1, "review",
                       strip(StripTranslate(StripTranslated(a1["review"]))))
              ELSE a1
    IN  a2

\* the elements of seq that satisfy having a title, in order
RECURSIVE WithTitle(_)
WithTitle(seq) ==
    IF seq = << >> THEN << >>
    ELSE (IF Has(Head(seq), "title") THEN <<Head(seq)>> ELSE << >>)
         \o WithTitle(Tail(seq))

\* The loop of parse_letterboxd_html over parser.activities: the dicts with
\* a title are cleaned in place and collected.
CleanUp(p) ==
    [p EXCEPT !.heap =
        [i \in DOMAIN p.heap |->
            IF (\E k \in 1..Len(p.activities) : p.activities[k] = i)
               /\ Has(p.heap[i], "title")
            THEN CleanActivity(p.heap[i])
            ELSE p.heap[i]]]

\* what parse_letterboxd_html returns once the parser has been fed
Returned(p) == WithTitle(Emitted(CleanUp(p)))

(***************************************************************************)
(* The events HTMLParser.feed hands to the parser.                         *)
(***************************************************************************)
\* handle_starttag(tag, attrs), handle_endtag(tag) and handle_data(data) calls
StartEvent(tag, attrs) == [kind |-> "start", tag |-> tag, attrs |-> attrs, data |-> ""]

EndEvent(tag) == [kind |-> "end", tag |-> tag, attrs |-> EmptyDict, data |-> ""]

DataEvent(data) == [kind |-> "data", tag |-> "", attrs |-> EmptyDict, data |-> data]

NoEvent == [kind |-> "none", tag |-> "", attrs |-> EmptyDict, data |-> ""]

\* the parser after HTMLParser.feed has dispatched event e
feed(p, e) ==
    CASE e.kind = "start" -> handle_starttag(p, e.tag, e.attrs)
      [] e.kind = "end"   -> handle_endtag(p, e.tag)
      [] e.kind = "data"  -> handle_data(p, e.data)

RatedClass(n) == "rating rated-" \o ToString(n)

RatedBadge(n) == StartEvent("span", [class |-> RatedClass(n)])

BlockOpen == StartEvent("section", [class |-> "activity-row"])

TitleOpen == StartEvent("h2", [class |-> "name"])

ReviewBodyOpen == StartEvent("div", [class |-> "js-review-body"])

\* Spec feeds these: every kind of tag and text the handlers tell apart
StartTags ==
    { BlockOpen,
      TitleOpen,
      StartEvent("a", [href |-> "/films/year/2024/"]),
      StartEvent("a", [href |-> "/u/film/w-24/"]),
      StartEvent("span", [class |-> "rating"]),
      RatedBadge(9),
      ReviewBodyOpen,
      StartEvent("time", [datetime |-> "2024-12-25T10:00:00"]),
      StartEvent("time", [datetime |-> "soon"]) }

EndTags == { EndEvent(tag) : tag \in {"section", "h2", "span", "div"} }

Texts == { DataEvent(data) : data \in {" ", "watched", " Wicked ", "Great", "Translate"} }

\* SpecRating feeds these: a block with a title and every rating badge
RatingEvents ==
    { BlockOpen, TitleOpen, DataEvent("Wicked"),
      EndEvent("section"), EndEvent("h2"), EndEvent("span") }
    \cup { RatedBadge(n) : n \in 0..MaxRated }

\* the section start tags that open an activity block
IsBlockOpen(e) ==
    /\ e.kind = "start"
    /\ e.tag = "section"
    /\ Has(e.attrs, "class")
    /\ Contains(e.attrs["class"], "activity-row")

\* HTMLParser.feed over a whole document
RECURSIVE FeedAll(_, _)
FeedAll(p, doc) ==
    IF doc = << >> THEN p ELSE FeedAll(feed(p, Head(doc)), Tail(doc))

parse_letterboxd_html(html_content) == Returned(FeedAll(NewParser, html_content))

(***************************************************************************)
(* format_for_trmnl.                                                       *)
(***************************************************************************)
\* Mutant of Recent: the list is not cut.
Recent_all(activities, lim) == activities

\* activities[:limit]
Recent(activities, lim) ==
    IF lim >= 0
    THEN SubSeq(activities, 1, Min(lim, Len(activities)))
    ELSE SubSeq(activities, 1, Max(Len(activities) + lim, 0))

\* the movie_data dict built for one activity
MovieData(activity) ==
    [ title          |-> Get(activity, "title", ""),
      year           |-> Get(activity, "year", ""),
      rating         |-> Get(activity, "rating", 0),
      rating_display |-> Get(activity, "rating_display", ""),
      review         |-> Get(activity, "review", ""),
      date           |-> Get(activity, "date", ""),
      date_short     |-> Get(activity, "date_short", ""),
      url            |-> Get(activity, "url", "") ]

\* Mutant of Latest: the last of the selected records.
Latest_last(recent) == recent[Len(recent)]

\* latest = recent[0]
Latest(recent) == recent[1]

\* format_for_trmnl(activities, limit), datetime.now() answering clock
format_for_trmnl(activities, lim, clock) ==
    LET recent == Recent(activities, lim)
        merge_vars ==
            [ user             |-> "NicoleP",
              update_time      |-> DateTimeLong(clock),
              movies           |-> [i \in 1..Len(recent) |-> MovieData(recent[i])],
              total_activities |-> Len(recent) ]
        latest == Latest(recent)
        with_latest ==
            Put(Put(Put(Put(Put(merge_vars,
                "latest_title",  Get(latest, "title", "")),
                "latest_year",   Get(latest, "year", "")),
                "latest_rating", Get(latest, "rating_display", "")),
                "latest_review", Get(latest, "review", "")),
                "latest_date",   Get(latest, "date", ""))
    IN  [merge_variables |-> IF recent # << >> THEN with_latest ELSE merge_vars]

\* the sequences over S of length at most n
SeqsUpTo(S, n) == UNION { [1..k -> S] : k \in 0..n }

\* readings of datetime.now()
Clock ==
    { [year |-> 2026, month |-> 11, day |-> 3, hour |-> 9, minute |-> 5],
      [year |-> 2024, month |-> 12, day |-> 25, hour |-> 12, minute |-> 40] }

\* records parse_letterboxd_html returns: a full block, a block with a
\* title only, and a block with a title, a rating and a review
SampleRecords ==
    { parse_letterboxd_html(
          << BlockOpen, TitleOpen, DataEvent("Wicked"), EndEvent("h2"),
             StartEvent("a", [href |-> "/films/year/2024/"]),
             StartEvent("a", [href |-> "/u/film/w-24/"]),
             RatedBadge(9), EndEvent("span"),
             ReviewBodyOpen, DataEvent("Great"), EndEvent("div"),
             StartEvent("time", [datetime |-> "2024-12-25T10:00:00"]),
             EndEvent("section") >>)[1],
      parse_letterboxd_html(
          << BlockOpen, TitleOpen, DataEvent("Dune"), EndEvent("section") >>)[1],
      parse_letterboxd_html(
          << BlockOpen, TitleOpen, DataEvent("Heat"), EndEvent("h2"),
             RatedBadge(6), ReviewBodyOpen, DataEvent("Loud"),
             DataEvent("Translate"), DataEvent("Translated from French"),
             EndEvent("section") >>)[1] }

(***************************************************************************)
(* Spec: one parser fed event by event, then parse_letterboxd_html's       *)
(* clean-up and return.                                                    *)
(***************************************************************************)
othervars == <<records, limit, now, envelope, file, templates, request, response>>

NoTime == [year |-> 1, month |-> 1, day |-> 1, hour |-> 0, minute |-> 0]

Idle ==
    /\ records = << >>
    /\ limit = 0
    /\ now = NoTime
    /\ envelope = EmptyDict
    /\ file = << >>
    /\ templates = {}
    /\ request = EmptyDict
    /\ response = EmptyDict

Init ==
    /\ parser = NewParser
    /\ fed = 0
    /\ last = NoEvent
    /\ input_blocks = 0
    /\ pc = "feeding"
    /\ result = << >>
    /\ Idle

\* HTMLParser.feed dispatches event e, one of at most max
Dispatch(e, max) ==
    /\ pc = "feeding"
    /\ fed < max
    /\ parser' = feed(parser, e)
    /\ last' = e
    /\ fed' = fed + 1
    /\ input_blocks' = input_blocks + (IF IsBlockOpen(e) THEN 1 ELSE 0)
    /\ UNCHANGED <<pc, result, othervars>>

StartTag == \E e \in StartTags : Dispatch(e, MaxEvents)

EndTag == \E e \in EndTags : Dispatch(e, MaxEvents)

Data == \E e \in Texts : Dispatch(e, MaxEvents)

\* the input ends: parse_letterboxd_html cleans up and returns
Finish ==
    /\ pc = "feeding"
    /\ parser' = CleanUp(parser)
    /\ result' = Returned(parser)
    /\ pc' = "done"
    /\ UNCHANGED <<fed, last, input_blocks, othervars>>

Next == StartTag \/ EndTag \/ Data \/ Finish

Spec == Init /\ [][Next]_vars

(***************************************************************************)
(* SpecRating: the same parser fed a block with every rating badge.        *)
(***************************************************************************)
RatingTag == \E e \in RatingEvents : Dispatch(e, MaxRatingEvents)

NextRating == RatingTag \/ Finish

SpecRating == Init /\ [][NextRating]_vars

(***************************************************************************)
(* SpecFormat: format_for_trmnl applied to a list of records.              *)
(***************************************************************************)
ParserIdle ==
    /\ parser = NewParser
    /\ fed = 0
    /\ last = NoEvent
    /\ input_blocks = 0
    /\ pc = "idle"
    /\ result = << >>

parservars == <<parser, fed, last, input_blocks, pc, result>>

InitFormat ==
    /\ ParserIdle
    /\ records \in SeqsUpTo(SampleRecords, MaxRecords)
    /\ limit = 0
    /\ now = NoTime
    /\ envelope = EmptyDict
    /\ file = << >>
    /\ templates = {}
    /\ request = EmptyDict
    /\ response = EmptyDict

Format ==
    /\ \E lim \in (-1)..MaxLimit, clock \in Clock :
          /\ envelope' = format_for_trmnl(records, lim, clock)
          /\ limit' = lim
          /\ now' = clock
    /\ UNCHANGED <<parservars, records, file, templates, request, response>>

NextFormat == Format

SpecFormat == InitFormat /\ [][NextFormat]_vars

(***************************************************************************)
(* trmnl_server.  The html file on disk is << >> when absent and <<doc>>   *)
(* when present, doc being the events its text parses to.  A response is   *)
(* its status, the kind of its body (json, text, html) and the body.       *)
(***************************************************************************)
DefaultLimit == 5

TemplateNames == {"full_screen.html", "half_horizontal.html"}

\* load_template: the template's text, named here by its file, or None
load_template(template_name) ==
    IF template_name \in templates THEN <<template_name>> ELSE << >>

\* Mutant of get_latest_data: an empty activity list is reported as no data.
get_latest_data_nonempty(html_file, clock) ==
    IF html_file = << >> \/ parse_letterboxd_html(html_file[1]) = << >>
    THEN << >>
    ELSE <<format_for_trmnl(parse_letterboxd_html(html_file[1]), DefaultLimit, clock)>>

\* get_latest_data: None (<< >>) when open() raises FileNotFoundError
get_latest_data(html_file, clock) ==
    IF html_file = << >>
    THEN << >>
    ELSE <<format_for_trmnl(parse_letterboxd_html(html_file[1]), DefaultLimit, clock)>>

\* jsonify(body), status
JsonResponse(body, status) == [status |-> status, kind |-> "json", body |-> body]

\* a str body, status
TextResponse(body, status) == [status |-> status, kind |-> "text", body |-> body]

\* jinja_template.render(**context), status 200
RenderedResponse(template, context) ==
    [status |-> 200, kind |-> "html",
     body |-> [template |-> template[1], context |-> context]]

\* request.get_json() raises BadRequest on a body that is not JSON
BadRequestResponse == [status |-> 400, kind |-> "text", body |-> "Bad Request"]

\* plugin_endpoint
plugin_endpoint(method, body, clock) ==
    LET data == get_latest_data(file, clock)
    IN  IF data = << >>
        THEN JsonResponse([error |-> "No data available"], 404)
        ELSE IF method = "POST" /\ body = "malformed"
        THEN BadRequestResponse
        ELSE JsonResponse(data[1], 200)

\* data_endpoint
data_endpoint(clock) ==
    LET data == get_latest_data(file, clock)
    IN  IF data = << >>
        THEN JsonResponse([error |-> "No data available"], 404)
        ELSE JsonResponse(data[1], 200)

\* preview_full and preview_half, which differ in the template they load
preview(template_name, clock) ==
    LET data     == get_latest_data(file, clock)
        template == load_template(template_name)
    IN  IF data = << >>
        THEN TextResponse("No data available", 404)
        ELSE IF template = << >>
        THEN TextResponse("Template not found", 404)
        ELSE RenderedResponse(template, data[1]["merge_variables"])

preview_full(clock) == preview("full_screen.html", clock)

preview_half(clock) == preview("half_horizontal.html", clock)

\* the documents the file may hold
DocEvents == {BlockOpen, TitleOpen, DataEvent("Wicked"), EndEvent("section")}

(***************************************************************************)
(* SpecServer: requests served from a file and templates on disk.          *)
(***************************************************************************)
InitServer ==
    /\ ParserIdle
    /\ records = << >>
    /\ limit = 0
    /\ now = NoTime
    /\ envelope = EmptyDict
    /\ file \in {<< >>} \cup { <<doc>> : doc \in SeqsUpTo(DocEvents, MaxDocLen) }
    /\ templates \in SUBSET TemplateNames
    /\ request = EmptyDict
    /\ response = EmptyDict

Serve(endpoint, method, body, answer) ==
    /\ request' = [endpoint |-> endpoint, method |-> method, body |-> body]
    /\ response' = answer
    /\ UNCHANGED <<parservars, records, limit, now, envelope, file, templates>>

\* a GET carries no body; a POST body is JSON or is not
PluginRequests ==
    { [method |-> "GET", body |-> ""],
      [method |-> "POST", body |-> "json"],
      [method |-> "POST", body |-> "malformed"] }

Plugin ==
    \E r \in PluginRequests, clock \in Clock :
        Serve("/api/plugin", r.method, r.body, plugin_endpoint(r.method, r.body, clock))

DataApi ==
    \E clock \in Clock : Serve("/api/data", "GET", "", data_endpoint(clock))

PreviewFull ==
    \E clock \in Clock : Serve("/preview", "GET", "", preview_full(clock))

PreviewHalf ==
    \E clock \in Clock : Serve("/preview/half", "GET", "", preview_half(clock))

NextServer == Plugin \/ DataApi \/ PreviewFull \/ PreviewHalf

SpecServer == InitServer /\ [][NextServer]_vars

(***************************************************************************)
(* Properties of the markup extractor, under Spec (C3, C4: SpecRating).     *)
(***************************************************************************)
\* a step that feeds one event to the parser
Feeds == pc = "feeding" /\ fed' = fed + 1

AllCursorsFalse(p) ==
    ~p.in_review /\ ~p.in_title /\ ~p.in_rating /\ ~p.in_review_body

\* C1: every record the parser has emitted, and every record
\* parse_letterboxd_html returns, has a title that is present and not empty;
\* a block without a title is never emitted.
C1_TitlePresent ==
    /\ \A i \in 1..Len(parser.activities) :
          Has(Emitted(parser)[i], "title") /\ Emitted(parser)[i]["title"] # ""
    /\ \A i \in 1..Len(result) :
          Has(result[i], "title") /\ result[i]["title"] # ""

\* C1 witness: two blocks were opened, one record was returned.
C1_Witness == pc = "done" /\ input_blocks = 2 /\ Len(result) = 1

\* C2: the number of records returned is at most the number of activity
\* blocks opened in the input.
C2_AtMostOnePerBlock == pc = "done" => Len(result) <= input_blocks

\* C3: a badge whose class contains rated-N, N in 1..10, sets rating to N/2.0
\* and rating_display to floor(N/2) full stars followed by a half star iff N
\* is odd, and the record emitted at the block close carries both.
C3_RatedBadge ==
    [][Feeds =>
          /\ \A n \in 1..10 :
                last' = RatedBadge(n)
                => /\ Has(Current(parser'), "rating")
                   /\ Current(parser')["rating"] = 5 * n
                   /\ Has(Current(parser'), "rating_display")
                   /\ Current(parser')["rating_display"]
                        = Repeat(FULL_STAR, n \div 2)
                            \o (IF n % 2 = 1 THEN HALF_STAR ELSE "")
          /\ (last' = EndEvent("section") /\ Has(Current(parser), "title"))
                => /\ Len(parser'.activities) = Len(parser.activities) + 1
                   /\ Emitted(parser')[Len(parser'.activities)] = Current(parser)
      ]_vars

\* C3 witness: a returned record rated 4.5 and displayed as four full stars
\* and a half star.
C3_Witness ==
    /\ pc = "done"
    /\ \E i \in 1..Len(result) :
          /\ Has(result[i], "rating")
          /\ result[i]["rating"] = 45
          /\ result[i]["rating_display"] = "****h"

\* C4: in every returned record the rating is absent or one of 0.5, 1.0, ...,
\* 5.0.
C4_RatingInRange ==
    pc = "done" =>
        \A i \in 1..Len(result) :
            Has(result[i], "rating") =>
                result[i]["rating"] \in {5 * n : n \in 1..10}

\* C8: right after a section end tag all four cursors are false.
C8_CursorsResetOnClose ==
    (pc = "feeding" /\ last = EndEvent("section")) => AllCursorsFalse(parser)

\* C9: while events are fed, the list of emitted records only grows at its
\* end and no record already in it changes.
C9_AppendOnly ==
    [][Feeds =>
          /\ Len(parser'.activities) >= Len(parser.activities)
          /\ \A i \in 1..Len(parser.activities) :
                Emitted(parser')[i] = Emitted(parser)[i]
      ]_vars

\* C9 witness: a record has been emitted and the accumulator has been
\* written to since.
C9_Witness ==
    /\ pc = "feeding"
    /\ Len(parser.activities) >= 1
    /\ Current(parser) # EmptyDict

\* C10: the review-body cursor is set by a js-review-body div start tag
\* whether or not a block is open, is left alone by a div end tag and by a
\* block open, and is cleared by a section end tag only; while it is set
\* every non-empty text chunk is appended to the accumulator's review,
\* joined by one space.
C10_ReviewBodyCursor ==
    [][Feeds =>
          /\ last' = ReviewBodyOpen => parser'.in_review_body
          /\ last' \in {EndEvent("div"), BlockOpen}
                => parser'.in_review_body = parser.in_review_body
          /\ (parser.in_review_body /\ ~parser'.in_review_body)
                => last' = EndEvent("section")
          /\ (last'.kind = "data" /\ parser.in_review_body /\ strip(last'.data) # "")
                => /\ Has(Current(parser'), "review")
                   /\ Current(parser')["review"]
                        = IF Has(Current(parser), "review")
                          THEN Current(parser)["review"] \o " " \o strip(last'.data)
                          ELSE strip(last'.data)
      ]_vars

\* C10 witness: no block is open, the review-body cursor is set and two text
\* chunks have been joined into the accumulator's review.
C10_Witness ==
    /\ last.kind = "data"
    /\ ~parser.in_review
    /\ parser.in_review_body
    /\ Has(Current(parser), "review")
    /\ Contains(Current(parser)["review"], " ")

(***************************************************************************)
(* Properties of format_for_trmnl, under SpecFormat.                       *)
(***************************************************************************)
Formatted == Has(envelope, "merge_variables")

LatestKeys ==
    {"latest_title", "latest_year", "latest_rating", "latest_review", "latest_date"}

\* C5: for a limit >= 0, movies holds the first min(limit, len(records))
\* records in the caller's order, and total_activities is its length.
C5_FirstLimitRecords ==
    (Formatted /\ limit >= 0) =>
        LET mv == envelope["merge_variables"]
        IN  /\ Len(mv["movies"]) = Min(limit, Len(records))
            /\ \A i \in 1..Len(mv["movies"]) :
                  \A k \in DOMAIN mv["movies"][i] :
                      mv["movies"][i][k]
                          = IF Has(records[i], k) THEN records[i][k]
                            ELSE IF k = "rating" THEN 0 ELSE ""
            /\ mv["total_activities"] = Len(mv["movies"])

\* C5 witness: the limit cuts the list short, and the order can be told.
C5_Witness ==
    /\ Formatted
    /\ limit = 2
    /\ Len(records) = 3
    /\ records[1] # records[2]
    /\ records[3] # records[2]

\* C6: the latest_* keys are present iff movies is not empty and then equal
\* movies[0]'s title, year, rating_display, review and date; on an empty
\* input they are omitted and total_activities is 0.
C6_LatestKeys ==
    Formatted =>
        LET mv == envelope["merge_variables"]
        IN  /\ mv["movies"] # << >> =>
                  /\ LatestKeys \subseteq DOMAIN mv
                  /\ mv["latest_title"] = mv["movies"][1]["title"]
                  /\ mv["latest_year"] = mv["movies"][1]["year"]
                  /\ mv["latest_rating"] = mv["movies"][1]["rating_display"]
                  /\ mv["latest_review"] = mv["movies"][1]["review"]
                  /\ mv["latest_date"] = mv["movies"][1]["date"]
            /\ mv["movies"] = << >> =>
                  /\ LatestKeys \cap DOMAIN mv = {}
                  /\ mv["total_activities"] = 0
            /\ records = << >> => mv["movies"] = << >>

\* C6 witness: two different movies were selected and the latest_* keys
\* carry the first.
C6_Witness ==
    /\ Formatted
    /\ Len(envelope["merge_variables"]["movies"]) >= 2
    /\ envelope["merge_variables"]["movies"][1]
         # envelope["merge_variables"]["movies"][2]
    /\ envelope["merge_variables"]["latest_rating"] = "****h"

(***************************************************************************)
(* Properties of the server, under SpecServer.                             *)
(***************************************************************************)
Served == Has(request, "endpoint")

FileAbsent == file = << >>

\* the file is there and parses to no record
ZeroRecords == file # << >> /\ parse_letterboxd_html(file[1]) = << >>

\* the 'No data available' answer: JSON {'error': ...} from the API
\* endpoints, plain text from the previews, status 404
NoDataAvailable(r) ==
    /\ r["status"] = 404
    /\ \/ r["kind"] = "json" /\ r["body"] = [error |-> "No data available"]
       \/ r["kind"] = "text" /\ r["body"] = "No data available"

\* merge variables with no movie, no latest_* key and total_activities 0
EmptyMergeVars(mv) ==
    /\ mv["movies"] = << >>
    /\ mv["total_activities"] = 0
    /\ LatestKeys \cap DOMAIN mv = {}

\* a 200 JSON answer carrying the envelope of an empty list
EmptyEnvelope(r) ==
    /\ r["status"] = 200
    /\ r["kind"] = "json"
    /\ Has(r["body"], "merge_variables")
    /\ EmptyMergeVars(r["body"]["merge_variables"])

====
